---------------------------- MODULE Spec2Model ----------------------------
(***************************************************************************)
(* A model of the request handlers, the root document boundaries, the      *)
(* new-note form and the redirect helper of the Infonomic Remix workbench. *)
(*                                                                         *)
(*   app/routes/_app+/notes.new.tsx   action, NewNotePage                  *)
(*   app/routes/theme.tsx             loader                               *)
(*   app/root.tsx (unnamed/part_000)  Document, ErrorDocument, boundaries  *)
(*   app/utils.ts                     safeRedirect                         *)
(*                                                                         *)
(* Each part has its own specification; the variables of the other parts   *)
(* stay at their initial values while one part runs.                       *)
(***************************************************************************)
EXTENDS Integers, Sequences, FiniteSets, TLC

VARIABLES
    \* ---- server: one request handler run at a time, and the note store
    request,          \* the incoming request: route, session cookie, form body
    pc,               \* position of the handler
    pRequireUserId,   \* the promise of requireUserId(request)
    pGetSession,      \* the promise of getSession(request)
    pFormData,        \* the promise of request.formData()
    userId,           \* action's const userId
    session,          \* action's const session (mutated by session.flash)
    formData,         \* action's const formData
    parseResult,      \* action's const parseResult
    note,             \* action's const note
    response,         \* what the handler returned or threw
    calls,            \* the calls the current handler run has made, in order
    db,               \* the persisted notes, in creation order
    nRequests,        \* requests handled so far
    \* ---- root.tsx: one render of the root route
    rootPc,           \* position of the render
    loaderData,       \* what the root loader returned
    caught,           \* the response useCatch() returns in CatchBoundary
    error,            \* the Error handed to ErrorBoundary
    rendered,         \* the document that was rendered
    console,          \* what console.error was called with
    \* ---- NewNotePage in the browser
    location,         \* the current route
    values,           \* the fields the user has filled in
    navigation,       \* useNavigation()
    errors,           \* react-hook-form's formState.errors
    actionData,       \* useActionData()
    focus,            \* the field holding input focus
    button,           \* the submit button as last rendered
    sent,             \* the form bodies submitted over the network
    events,           \* the submit events handled so far
    \* ---- utils.ts: one call of safeRedirect
    to,               \* the argument to
    defaultRedirect,  \* the argument defaultRedirect
    result,           \* the value returned
    \* ---- utils.ts: one call of truncate
    str,              \* the argument str
    length,           \* the argument length
    useWordBoundary,  \* the argument useWordBoundary
    truncated         \* the value returned

serverVars == <<request, pc, pRequireUserId, pGetSession, pFormData, userId,
                session, formData, parseResult, note, response, calls,
                db, nRequests>>

rootVars == <<rootPc, loaderData, caught, error, rendered, console>>

formVars == <<location, values, navigation, errors, actionData, focus, button,
              sent, events>>

redirectVars == <<to, defaultRedirect, result>>

truncateVars == <<str, length, useWordBoundary, truncated>>

vars == <<serverVars, rootVars, formVars, redirectVars, truncateVars>>

-----------------------------------------------------------------------------
(* Bounds *)

MaxRequests == 2

MaxSubmits == 2

MaxLen == 3

MaxStrLen == 4

-----------------------------------------------------------------------------
(* Values *)

NoUser == "<no user>"
Users == {"u1", "u2"}
Texts == {"a", "b"}
fields == <<"title", "body">>
FieldNames == {fields[i] : i \in DOMAIN fields}

\* A form body: the fields present, each with a non-empty text.
FormBodies == UNION {[D -> Texts] : D \in SUBSET FieldNames}
EmptyForm == [f \in {} |-> "a"]

Routes == {"/theme", "/notes/new"}

Requests ==
    {[route |-> "/theme", cookieUserId |-> u, form |-> EmptyForm] :
        u \in Users \cup {NoUser}}
    \cup
    {[route |-> "/notes/new", cookieUserId |-> u, form |-> f] :
        u \in Users \cup {NoUser}, f \in FormBodies}

Pending == [state |-> "pending", value |-> "<none>"]
NotIssued == [state |-> "not issued", value |-> "<none>"]

NoSession == [userId |-> NoUser, flash |-> <<>>]
NoParse == [success |-> FALSE, data |-> EmptyForm, error |-> EmptyForm]
NoNote == [id |-> 0, title |-> "", body |-> "", userId |-> NoUser]
NoCookie == [signed |-> FALSE, data |-> NoSession]
NoResponse ==
    [kind |-> "none", status |-> 0, location |-> "", setCookie |-> NoCookie,
     errors |-> EmptyForm]

-----------------------------------------------------------------------------
(* Collaborators that live outside the route modules *)

\* session.server: requireUserId resolves with the session's user id and
\* rejects with a redirect to the login page when the session has none.
LoginRedirect ==
    [kind |-> "thrown redirect", status |-> 302, location |-> "/login",
     setCookie |-> NoCookie, errors |-> EmptyForm]

requireUserId(req) ==
    IF req.cookieUserId # NoUser
        THEN [state |-> "resolved", value |-> req.cookieUserId]
        ELSE [state |-> "rejected", value |-> "<redirect>"]

\* session.server: getSession reads the session stored in the request's cookie.
getSession(req) ==
    [state |-> "resolved",
     value |-> [userId |-> req.cookieUserId, flash |-> <<>>]]

\* request.formData() resolves with the submitted key/value pairs.
requestFormData(req) == [state |-> "resolved", value |-> req.form]

\* session.server: commitSession serialises the session it is given into a
\* signed cookie value.
commitSession(s) == [signed |-> TRUE, data |-> s]

\* modules/notes: the shared schema requires title and body.
MissingFields(fd) == {f \in FieldNames : f \notin DOMAIN fd}

safeParse(fd) ==
    IF MissingFields(fd) = {}
        THEN [success |-> TRUE,
              data |-> [f \in FieldNames |-> fd[f]],
              error |-> EmptyForm]
        ELSE [success |-> FALSE,
              data |-> EmptyForm,
              error |-> [f \in MissingFields(fd) |-> "Required"]]

\* models/note.server: createNote stores a note with a fresh id and returns it.
createNote(args) ==
    [id |-> Len(db) + 1, title |-> args.title, body |-> args.body,
     userId |-> args.userId]

-----------------------------------------------------------------------------
(* notes.new.tsx: action *)

Count(op) == Cardinality({i \in DOMAIN calls : calls[i] = op})

\* Promise.all rejects as soon as one input rejects, fulfils when all fulfil.
PromiseAllRejects(ps) == \E i \in DOMAIN ps : ps[i].state = "rejected"

\* A slip: Promise.allSettled, which never rejects.
PromiseAllSettles(ps) == \A i \in DOMAIN ps : ps[i].state # "pending"

PromiseAllFulfils(ps) == \A i \in DOMAIN ps : ps[i].state = "resolved"

ActionPromises == <<pRequireUserId, pGetSession, pFormData>>

\* A slip: the status option left out, so json() answers 200.
ValidationFailureDefaultStatus(pr) ==
    [kind |-> "json", status |-> 200, location |-> "",
     setCookie |-> NoCookie, errors |-> pr.error]

\* line 42: json({ errors: parseResult.error.format() }, { status: 400 })
ValidationFailure(pr) ==
    [kind |-> "json", status |-> 400, location |-> "",
     setCookie |-> NoCookie, errors |-> pr.error]

\* A slip: title and body exchanged.
CreateNoteArgsSwapped(pr, uid) ==
    [title |-> pr.data["body"], body |-> pr.data["title"], userId |-> uid]

\* lines 45-49: the argument of createNote
CreateNoteArgs(pr, uid) ==
    [title |-> pr.data["title"], body |-> pr.data["body"], userId |-> uid]

\* line 51: the flash message
FlashMessage(n) ==
    [key |-> "success",
     text |-> <<"Note with title: '", n.title, "' was successfully created.">>]

\* session.flash(key, text) mutates the session object in place.
Flash(s, msg) == [s EXCEPT !.flash = Append(@, msg)]

\* A slip: the headers left out of the redirect.
RedirectWithoutCookie(cookie) ==
    [kind |-> "redirect", status |-> 302, location |-> "/notes",
     setCookie |-> NoCookie, errors |-> EmptyForm]

\* lines 52-56: redirect('/notes', { headers: { 'Set-Cookie': ... } })
RedirectToNotes(cookie) ==
    [kind |-> "redirect", status |-> 302, location |-> "/notes",
     setCookie |-> cookie, errors |-> EmptyForm]

\* A slip: a session read afresh from the request is committed instead of
\* the object that was flashed.
SessionAsRead == getSession(request).value

\* line 54: the session handed to commitSession
SessionToCommit == session

ThrownError ==
    [kind |-> "thrown error", status |-> 0, location |-> "",
     setCookie |-> NoCookie, errors |-> EmptyForm]

\* lines 34-38: the three calls are issued together
ActionStart ==
    /\ pc = "start"
    /\ request.route = "/notes/new"
    /\ pRequireUserId' = Pending
    /\ pGetSession' = Pending
    /\ pFormData' = Pending
    /\ calls' = calls \o <<"requireUserId", "getSession", "formData">>
    /\ pc' = "awaitAll"
    /\ UNCHANGED <<request, userId, session, formData, parseResult, note,
                   response, db, nRequests>>
    /\ UNCHANGED <<rootVars, formVars, redirectVars, truncateVars>>

\* The issued calls settle in any order, also after the handler has thrown.
SettleRequireUserId ==
    /\ pRequireUserId.state = "pending"
    /\ pRequireUserId' = requireUserId(request)
    /\ UNCHANGED <<request, pc, pGetSession, pFormData, userId, session,
                   formData, parseResult, note, response, calls, db, nRequests>>
    /\ UNCHANGED <<rootVars, formVars, redirectVars, truncateVars>>

SettleGetSession ==
    /\ pGetSession.state = "pending"
    /\ pGetSession' = getSession(request)
    /\ UNCHANGED <<request, pc, pRequireUserId, pFormData, userId, session,
                   formData, parseResult, note, response, calls, db, nRequests>>
    /\ UNCHANGED <<rootVars, formVars, redirectVars, truncateVars>>

SettleFormData ==
    /\ pFormData.state = "pending"
    /\ pFormData' = requestFormData(request)
    /\ UNCHANGED <<request, pc, pRequireUserId, pGetSession, userId, session,
                   formData, parseResult, note, response, calls, db, nRequests>>
    /\ UNCHANGED <<rootVars, formVars, redirectVars, truncateVars>>

\* line 34: await Promise.all([...]) throws what requireUserId threw
ActionAwaitRejected ==
    /\ pc = "awaitAll"
    /\ PromiseAllRejects(ActionPromises)
    /\ response' = LoginRedirect
    /\ pc' = "thrown"
    /\ UNCHANGED <<request, pRequireUserId, pGetSession, pFormData, userId,
                   session, formData, parseResult, note, calls, db, nRequests>>
    /\ UNCHANGED <<rootVars, formVars, redirectVars, truncateVars>>

\* line 34: const [userId, session, formData] = await Promise.all([...])
ActionAwaitFulfilled ==
    /\ pc = "awaitAll"
    /\ PromiseAllFulfils(ActionPromises)
    /\ userId' = pRequireUserId.value
    /\ session' = pGetSession.value
    /\ formData' = pFormData.value
    /\ pc' = "parse"
    /\ UNCHANGED <<request, pRequireUserId, pGetSession, pFormData,
                   parseResult, note, response, calls, db, nRequests>>
    /\ UNCHANGED <<rootVars, formVars, redirectVars, truncateVars>>

\* lines 40-43
ActionValidate ==
    /\ pc = "parse"
    /\ parseResult' = safeParse(formData)
    /\ calls' = Append(calls, "safeParse")
    /\ IF ~parseResult'.success
         THEN /\ response' = ValidationFailure(parseResult')
              /\ pc' = "done"
         ELSE /\ pc' = "create"
              /\ UNCHANGED response
    /\ UNCHANGED <<request, pRequireUserId, pGetSession, pFormData, userId,
                   session, formData, note, db, nRequests>>
    /\ UNCHANGED <<rootVars, formVars, redirectVars, truncateVars>>

\* lines 45-49: createNote resolves with the stored note
ActionCreateNote ==
    /\ pc = "create"
    /\ calls' = Append(calls, "createNote")
    /\ note' = createNote(CreateNoteArgs(parseResult, userId))
    /\ db' = Append(db, note')
    /\ pc' = "flash"
    /\ UNCHANGED <<request, pRequireUserId, pGetSession, pFormData, userId,
                   session, formData, parseResult, response, nRequests>>
    /\ UNCHANGED <<rootVars, formVars, redirectVars, truncateVars>>

\* lines 45-49: createNote rejects (a persistence failure); the action throws
ActionCreateNoteFails ==
    /\ pc = "create"
    /\ calls' = Append(calls, "createNote")
    /\ response' = ThrownError
    /\ pc' = "thrown"
    /\ UNCHANGED <<request, pRequireUserId, pGetSession, pFormData, userId,
                   session, formData, parseResult, note, db, nRequests>>
    /\ UNCHANGED <<rootVars, formVars, redirectVars, truncateVars>>

\* line 51
ActionFlash ==
    /\ pc = "flash"
    /\ session' = Flash(session, FlashMessage(note))
    /\ calls' = Append(calls, "flash")
    /\ pc' = "commit"
    /\ UNCHANGED <<request, pRequireUserId, pGetSession, pFormData, userId,
                   formData, parseResult, note, response, db, nRequests>>
    /\ UNCHANGED <<rootVars, formVars, redirectVars, truncateVars>>

\* lines 52-56: commitSession resolves and the redirect is returned
ActionCommit ==
    /\ pc = "commit"
    /\ calls' = Append(calls, "commitSession")
    /\ response' = RedirectToNotes(commitSession(SessionToCommit))
    /\ pc' = "done"
    /\ UNCHANGED <<request, pRequireUserId, pGetSession, pFormData, userId,
                   session, formData, parseResult, note, db, nRequests>>
    /\ UNCHANGED <<rootVars, formVars, redirectVars, truncateVars>>

\* line 54: commitSession rejects; the action throws
ActionCommitFails ==
    /\ pc = "commit"
    /\ calls' = Append(calls, "commitSession")
    /\ response' = ThrownError
    /\ pc' = "thrown"
    /\ UNCHANGED <<request, pRequireUserId, pGetSession, pFormData, userId,
                   session, formData, parseResult, note, db, nRequests>>
    /\ UNCHANGED <<rootVars, formVars, redirectVars, truncateVars>>

-----------------------------------------------------------------------------
(* theme.tsx: loader *)

NullPayload ==
    [kind |-> "null", status |-> 200, location |-> "",
     setCookie |-> NoCookie, errors |-> EmptyForm]

\* line 30: requireUserId(request) is called
LoaderStart ==
    /\ pc = "start"
    /\ request.route = "/theme"
    /\ pRequireUserId' = Pending
    /\ calls' = Append(calls, "requireUserId")
    /\ pc' = "awaitUser"
    /\ UNCHANGED <<request, pGetSession, pFormData, userId, session, formData,
                   parseResult, note, response, db, nRequests>>
    /\ UNCHANGED <<rootVars, formVars, redirectVars, truncateVars>>

\* line 30: await requireUserId(request) throws
LoaderAwaitRejected ==
    /\ pc = "awaitUser"
    /\ pRequireUserId.state = "rejected"
    /\ response' = LoginRedirect
    /\ pc' = "thrown"
    /\ UNCHANGED <<request, pRequireUserId, pGetSession, pFormData, userId,
                   session, formData, parseResult, note, calls, db, nRequests>>
    /\ UNCHANGED <<rootVars, formVars, redirectVars, truncateVars>>

\* lines 30-31: the await resumes and the loader returns null
LoaderReturn ==
    /\ pc = "awaitUser"
    /\ pRequireUserId.state = "resolved"
    /\ response' = NullPayload
    /\ pc' = "done"
    /\ UNCHANGED <<request, pRequireUserId, pGetSession, pFormData, userId,
                   session, formData, parseResult, note, calls, db, nRequests>>
    /\ UNCHANGED <<rootVars, formVars, redirectVars, truncateVars>>

-----------------------------------------------------------------------------
(* The server takes requests one after another; the note store persists. *)

HandlerInit(req) ==
    /\ request = req
    /\ pc = "start"
    /\ pRequireUserId = NotIssued
    /\ pGetSession = NotIssued
    /\ pFormData = NotIssued
    /\ userId = NoUser
    /\ session = NoSession
    /\ formData = EmptyForm
    /\ parseResult = NoParse
    /\ note = NoNote
    /\ response = NoResponse
    /\ calls = <<>>

Settled ==
    /\ pRequireUserId.state # "pending"
    /\ pGetSession.state # "pending"
    /\ pFormData.state # "pending"

NewRequest ==
    /\ pc \in {"done", "thrown"}
    /\ Settled
    /\ nRequests < MaxRequests
    /\ nRequests' = nRequests + 1
    /\ request' \in Requests
    /\ pc' = "start"
    /\ pRequireUserId' = NotIssued
    /\ pGetSession' = NotIssued
    /\ pFormData' = NotIssued
    /\ userId' = NoUser
    /\ session' = NoSession
    /\ formData' = EmptyForm
    /\ parseResult' = NoParse
    /\ note' = NoNote
    /\ response' = NoResponse
    /\ calls' = <<>>
    /\ UNCHANGED db
    /\ UNCHANGED <<rootVars, formVars, redirectVars, truncateVars>>

ServerInit ==
    /\ \E req \in Requests : HandlerInit(req)
    /\ db = <<>>
    /\ nRequests = 1

ServerNext ==
    \/ ActionStart
    \/ SettleRequireUserId
    \/ SettleGetSession
    \/ SettleFormData
    \/ ActionAwaitRejected
    \/ ActionAwaitFulfilled
    \/ ActionValidate
    \/ ActionCreateNote
    \/ ActionCreateNoteFails
    \/ ActionFlash
    \/ ActionCommit
    \/ ActionCommitFails
    \/ LoaderStart
    \/ LoaderAwaitRejected
    \/ LoaderReturn
    \/ NewRequest

-----------------------------------------------------------------------------
(* root.tsx: loader, Document, ErrorDocument, App, ErrorBoundary,          *)
(* CatchBoundary                                                           *)

NoTheme == "<null>"
Themes == {"light", "dark"}

EnvMaps ==
    {[RECAPTCHA_ENABLED |-> "true", RECAPTCHA_SITE_KEY |-> "site-key"],
     [RECAPTCHA_ENABLED |-> "<undefined>", RECAPTCHA_SITE_KEY |-> "<undefined>"]}
NoEnv == [RECAPTCHA_ENABLED |-> "<absent>", RECAPTCHA_SITE_KEY |-> "<absent>"]

\* lines 66-79: the payload the root loader builds
LoaderPayloads ==
    [theme : Themes \cup {NoTheme}, user : {NoUser, "u1"}, ENV : EnvMaps]
NoLoaderData == [theme |-> NoTheme, user |-> NoUser, ENV |-> NoEnv]

Statuses == {400, 401, 404, 500}
Caughts ==
    [status : Statuses, statusText : {"", "Status Text"},
     data : {"", "Response body"}]
NoCaught == [status |-> 0, statusText |-> "", data |-> ""]

NoError == [message |-> "<no error>"]
ThrownMessages == {"render failed"}

NoDocument ==
    [kind |-> "none", htmlClass |-> "", title |-> <<>>, parts |-> {},
     env |-> NoEnv, children |-> [heading |-> <<>>, paragraphs |-> <<>>]]

\* classnames: cx of a string is the string, cx of null is the empty string
cx(theme) == IF theme = NoTheme THEN "" ELSE theme

\* theme-provider: useTheme() gives the theme the provider was given
useTheme(specifiedTheme) == [theme |-> specifiedTheme]

\* lines 81-122
Document(children, title) ==
    [kind |-> "Document",
     htmlClass |-> cx(useTheme(loaderData.theme).theme),
     title |-> title,
     parts |-> {"NonFlashOfWrongThemeEls", "Meta", "Links",
                "ScrollRestoration", "window.ENV script", "Scripts",
                "LiveReload"},
     env |-> loaderData.ENV,
     children |-> children]

\* A slip: the error document classed by the session theme like Document.
ErrorDocumentThemed(children, title) ==
    [kind |-> "ErrorDocument",
     htmlClass |-> cx(loaderData.theme),
     title |-> title,
     parts |-> {"Meta", "Links", "Scripts", "LiveReload"},
     env |-> NoEnv,
     children |-> children]

\* lines 124-155
ErrorDocument(children, title) ==
    [kind |-> "ErrorDocument",
     htmlClass |-> "dark",
     title |-> title,
     parts |-> {"Meta", "Links", "Scripts", "LiveReload"},
     env |-> NoEnv,
     children |-> children]

\* JavaScript's a || b on strings: the empty string is falsy
JsOr(a, b) == IF a # "" THEN a ELSE b

\* lines 194-204: the switch on caught.status
CatchMessage(status) ==
    CASE status = 401 ->
           "Oops! Looks like you tried to visit a page that you do not have access to."
      [] status = 404 ->
           "Oops! Looks like you tried to visit a page that does not exist."
      [] OTHER -> "<throw>"

\* A slip: the response body ignored.
CatchErrorStatusText(c) == [message |-> c.statusText]

\* line 203: new Error(caught.data || caught.statusText)
CatchError(c) == [message |-> JsOr(c.data, c.statusText)]

\* lines 66-79
RootLoader ==
    /\ rootPc = "loader"
    /\ loaderData' \in LoaderPayloads
    /\ rootPc' = "render"
    /\ UNCHANGED <<caught, error, rendered, console>>
    /\ UNCHANGED <<serverVars, formVars, redirectVars, truncateVars>>

\* lines 157-169: App renders the full document around the outlet
App ==
    /\ rootPc = "render"
    /\ rendered' = Document([heading |-> <<>>, paragraphs |-> <<"Outlet">>], <<>>)
    /\ rootPc' = "done"
    /\ UNCHANGED <<loaderData, caught, error, console>>
    /\ UNCHANGED <<serverVars, formVars, redirectVars, truncateVars>>

\* A descendant loader or action throws a Response: the catch boundary is entered.
ThrowResponse ==
    /\ rootPc = "render"
    /\ caught' \in Caughts
    /\ rootPc' = "catch"
    /\ UNCHANGED <<loaderData, error, rendered, console>>
    /\ UNCHANGED <<serverVars, formVars, redirectVars, truncateVars>>

\* A descendant throws an Error: the error boundary is entered.
ThrowError ==
    /\ rootPc = "render"
    /\ error' \in [message : ThrownMessages]
    /\ rootPc' = "error"
    /\ UNCHANGED <<loaderData, caught, rendered, console>>
    /\ UNCHANGED <<serverVars, formVars, redirectVars, truncateVars>>

\* lines 190-218
CatchBoundary ==
    /\ rootPc = "catch"
    /\ IF CatchMessage(caught.status) = "<throw>"
         THEN /\ error' = CatchError(caught)
              /\ rootPc' = "error"
              /\ UNCHANGED rendered
         ELSE /\ rendered' =
                    ErrorDocument(
                        [heading |-> <<ToString(caught.status), ": ",
                                       caught.statusText>>,
                         paragraphs |-> <<CatchMessage(caught.status)>>],
                        <<ToString(caught.status), " ", caught.statusText>>)
              /\ rootPc' = "done"
              /\ UNCHANGED error
    /\ UNCHANGED <<loaderData, caught, console>>
    /\ UNCHANGED <<serverVars, formVars, redirectVars, truncateVars>>

\* lines 171-188
ErrorBoundary ==
    /\ rootPc = "error"
    /\ console' = Append(console, error)
    /\ rendered' =
           ErrorDocument(
               [heading |-> <<"There was an error">>,
                paragraphs |-> <<error.message,
                    "Oops. Something went wrong. We're looking into it.">>],
               <<"Error! - Infonomic Remix Workbench App">>)
    /\ rootPc' = "done"
    /\ UNCHANGED <<loaderData, caught, error>>
    /\ UNCHANGED <<serverVars, formVars, redirectVars, truncateVars>>

RootInit ==
    /\ rootPc = "loader"
    /\ loaderData = NoLoaderData
    /\ caught = NoCaught
    /\ error = NoError
    /\ rendered = NoDocument
    /\ console = <<>>

-----------------------------------------------------------------------------
(* notes.new.tsx: NewNotePage *)

NavIdle == [state |-> "idle", formData |-> EmptyForm, redirectTo |-> ""]
NoActionData == [errors |-> EmptyForm]
ErrorMaps == UNION {[D -> {"Required"}] : D \in SUBSET FieldNames}

\* A slip: the wrong navigation state tested.
submittingWhenLoading(nav) == nav.state = "loading"

\* line 88
submitting(nav) == nav.state = "submitting"

\* lines 135-137: the submit button
Button(nav) ==
    [disabled |-> submitting(nav),
     label |-> IF submitting(nav) THEN "..." ELSE "Save"]

\* line 89: zodResolver(schema) validates the form values with the shared schema
resolver(vals) == safeParse(vals)

\* A slip: submit(event.target) called straight from onSubmit.
SubmitAlways(vals) == TRUE

\* line 109: handleSubmit calls its callback only when the resolver finds no error
ShouldSubmit(vals) == resolver(vals).success

\* line 99: the first field, in the order of fields, that has a server error
FirstErrorField(errs) ==
    IF DOMAIN errs = {}
        THEN "<none>"
        ELSE fields[CHOOSE i \in DOMAIN fields :
                        /\ fields[i] \in DOMAIN errs
                        /\ \A j \in DOMAIN fields :
                               fields[j] \in DOMAIN errs => i <= j]

\* The user fills in or clears a field.
Edit ==
    /\ location = "/notes/new"
    /\ \E f \in FieldNames :
          \/ \E t \in Texts :
                values' = [g \in DOMAIN values \cup {f} |->
                              IF g = f THEN t ELSE values[g]]
          \/ /\ f \in DOMAIN values
             /\ values' = [g \in DOMAIN values \ {f} |-> values[g]]
    /\ UNCHANGED <<location, navigation, errors, actionData, focus, button,
                   sent, events>>
    /\ UNCHANGED <<serverVars, rootVars, redirectVars, truncateVars>>

\* lines 108-110: the form's submit event.  handleSubmit prevents the default
\* submission, runs the resolver, and calls submit(event.target) when valid.
OnSubmit ==
    /\ location = "/notes/new"
    /\ ~button.disabled
    /\ Len(events) < MaxSubmits
    /\ errors' = resolver(values).error
    /\ events' = Append(events, [values |-> values,
                                 during |-> navigation.state,
                                 submitted |-> ShouldSubmit(values)])
    /\ IF ShouldSubmit(values)
         THEN /\ sent' = Append(sent, values)
              /\ navigation' = [state |-> "submitting", formData |-> values,
                                redirectTo |-> ""]
         ELSE UNCHANGED <<sent, navigation>>
    /\ button' = Button(navigation')
    /\ UNCHANGED <<location, values, actionData, focus>>
    /\ UNCHANGED <<serverVars, rootVars, redirectVars, truncateVars>>

\* The action answers 400 with field errors: the page gets action data, the
\* effect of lines 97-102 moves the focus, and the loaders are revalidated.
ActionAnswersErrors ==
    /\ navigation.state = "submitting"
    /\ \E errs \in ErrorMaps \ {EmptyForm} :
          /\ actionData' = [errors |-> errs]
          /\ focus' = FirstErrorField(errs)
    /\ navigation' = [navigation EXCEPT !.state = "loading"]
    /\ button' = Button(navigation')
    /\ UNCHANGED <<location, values, errors, sent, events>>
    /\ UNCHANGED <<serverVars, rootVars, redirectVars, truncateVars>>

\* The action answers with a redirect (to the listing, or to the login page
\* when requireUserId threw): the router follows it.
ActionAnswersRedirect ==
    /\ navigation.state = "submitting"
    /\ \E target \in {"/notes", "/login"} :
          navigation' = [navigation EXCEPT !.state = "loading",
                                           !.redirectTo = target]
    /\ button' = Button(navigation')
    /\ UNCHANGED <<location, values, errors, actionData, focus, sent, events>>
    /\ UNCHANGED <<serverVars, rootVars, redirectVars, truncateVars>>

\* The loaders finish: the navigation is idle again.
LoadCompletes ==
    /\ navigation.state = "loading"
    /\ location' = JsOr(navigation.redirectTo, location)
    /\ navigation' = NavIdle
    /\ button' = Button(navigation')
    /\ UNCHANGED <<values, errors, actionData, focus, sent, events>>
    /\ UNCHANGED <<serverVars, rootVars, redirectVars, truncateVars>>

\* The user comes back to the new-note page: the component mounts afresh.
OpenNewNote ==
    /\ location # "/notes/new"
    /\ location' = "/notes/new"
    /\ values' = EmptyForm
    /\ navigation' = NavIdle
    /\ errors' = EmptyForm
    /\ actionData' = NoActionData
    /\ focus' = "<none>"
    /\ button' = Button(navigation')
    /\ UNCHANGED <<sent, events>>
    /\ UNCHANGED <<serverVars, rootVars, redirectVars, truncateVars>>

FormInit ==
    /\ location = "/notes/new"
    /\ values = EmptyForm
    /\ navigation = NavIdle
    /\ errors = EmptyForm
    /\ actionData = NoActionData
    /\ focus = "<none>"
    /\ button = Button(NavIdle)
    /\ sent = <<>>
    /\ events = <<>>

-----------------------------------------------------------------------------
(* utils.ts: safeRedirect *)

Chars == {"/", "a"}

Strings == UNION {[1..n -> Chars] : n \in 0..MaxLen}

String(chars) == [type |-> "string", chars |-> chars]
Null == [type |-> "null", chars |-> <<>>]
Undefined == [type |-> "undefined", chars |-> <<>>]
File == [type |-> "file", chars |-> <<>>]

\* line 9
DEFAULT_REDIRECT == String(<<"/">>)

\* !v
Falsy(v) == v.type \in {"null", "undefined"} \/ (v.type = "string" /\ v.chars = <<>>)

startsWith(s, prefix) ==
    /\ Len(s) >= Len(prefix)
    /\ SubSeq(s, 1, Len(prefix)) = prefix

\* line 21: the default value of the parameter
DefaultParameter(d) == IF d.type = "undefined" THEN DEFAULT_REDIRECT ELSE d

\* A slip: the protocol-relative '//' test left out.
safeRedirectSingleSlash(t, d) ==
    IF Falsy(t) \/ t.type # "string"
        THEN DefaultParameter(d)
    ELSE IF ~startsWith(t.chars, <<"/">>)
        THEN DefaultParameter(d)
    ELSE t

\* lines 18-32
safeRedirect(t, d) ==
    IF Falsy(t) \/ t.type # "string"
        THEN DefaultParameter(d)
    ELSE IF ~startsWith(t.chars, <<"/">>) \/ startsWith(t.chars, <<"/", "/">>)
        THEN DefaultParameter(d)
    ELSE t

NotCalled == [type |-> "not called", chars |-> <<>>]

CallSafeRedirect ==
    /\ result = NotCalled
    /\ result' = safeRedirect(to, defaultRedirect)
    /\ UNCHANGED <<to, defaultRedirect>>
    /\ UNCHANGED <<serverVars, rootVars, formVars, truncateVars>>

RedirectInit ==
    /\ to \in {Null, Undefined, File} \cup {String(c) : c \in Strings}
    /\ defaultRedirect \in {Undefined} \cup {String(c) : c \in Strings}
    /\ result = NotCalled

RedirectIdle ==
    /\ to = Undefined
    /\ defaultRedirect = Undefined
    /\ result = NotCalled

-----------------------------------------------------------------------------
(* utils.ts: truncate *)

TruncateChars == {"a", " "}

TruncateStrings == UNION {[1..n -> TruncateChars] : n \in 0..MaxStrLen}

\* String.prototype.slice(0, end): a negative end counts from the end of the
\* string, and the end is clamped to the string
slice(s, end) ==
    LET e == IF end < 0
                 THEN (IF Len(s) + end < 0 THEN 0 ELSE Len(s) + end)
                 ELSE (IF end > Len(s) THEN Len(s) ELSE end)
    IN  SubSeq(s, 1, e)

\* String.prototype.lastIndexOf(c): the zero-based index of the last c, or -1
lastIndexOf(s, c) ==
    IF \E i \in DOMAIN s : s[i] = c
        THEN (CHOOSE i \in DOMAIN s :
                 /\ s[i] = c
                 /\ \A j \in DOMAIN s : s[j] = c => j <= i) - 1
        ELSE -1

Ellipsis == <<".", ".", ".">>

\* lines 77-83
truncate(s, len, wordBoundary) ==
    IF s = <<>> \/ Len(s) <= len
        THEN s
        ELSE LET subString == slice(s, len - 2)
             IN  (IF wordBoundary
                      THEN slice(subString, lastIndexOf(subString, " "))
                      ELSE subString) \o Ellipsis

TruncateNotCalled == <<"<not called>">>

CallTruncate ==
    /\ truncated = TruncateNotCalled
    /\ truncated' = truncate(str, length, useWordBoundary)
    /\ UNCHANGED <<str, length, useWordBoundary>>
    /\ UNCHANGED <<serverVars, rootVars, formVars, redirectVars>>

TruncateInit ==
    /\ str \in TruncateStrings
    /\ length \in 0..(MaxStrLen + 1)
    /\ useWordBoundary \in BOOLEAN
    /\ truncated = TruncateNotCalled

TruncateIdle ==
    /\ str = <<>>
    /\ length = 0
    /\ useWordBoundary = FALSE
    /\ truncated = TruncateNotCalled

-----------------------------------------------------------------------------
(* Specifications *)

\* The server handling requests.
Init == ServerInit /\ RootInit /\ FormInit /\ RedirectIdle /\ TruncateIdle

Next == ServerNext

Spec == Init /\ [][Next]_vars

ServerIdle ==
    /\ HandlerInit([route |-> "/theme", cookieUserId |-> NoUser,
                    form |-> EmptyForm])
    /\ db = <<>>
    /\ nRequests = 1

\* One render of the root route.
InitRoot == ServerIdle /\ RootInit /\ FormInit /\ RedirectIdle /\ TruncateIdle

NextRoot ==
    \/ RootLoader
    \/ App
    \/ ThrowResponse
    \/ ThrowError
    \/ CatchBoundary
    \/ ErrorBoundary

SpecRoot == InitRoot /\ [][NextRoot]_vars

\* The new-note page in the browser.
InitForm == ServerIdle /\ RootInit /\ FormInit /\ RedirectIdle /\ TruncateIdle

NextForm ==
    \/ Edit
    \/ OnSubmit
    \/ ActionAnswersErrors
    \/ ActionAnswersRedirect
    \/ LoadCompletes
    \/ OpenNewNote

SpecForm == InitForm /\ [][NextForm]_vars

\* One call of safeRedirect.
InitRedirect == ServerIdle /\ RootInit /\ FormInit /\ RedirectInit /\ TruncateIdle

NextRedirect == CallSafeRedirect

SpecRedirect == InitRedirect /\ [][NextRedirect]_vars

-----------------------------------------------------------------------------
(* Claims *)

AllCalls ==
    <<"requireUserId", "getSession", "formData", "safeParse", "createNote",
      "flash", "commitSession">>

\* C1: a submission to the notes action that lacks title or body is answered
\* 400 with the error map keyed by the missing fields, and the handler makes
\* no createNote, flash or commitSession call.
C1_ValidationFailure ==
    (request.route = "/notes/new" /\ MissingFields(request.form) # {}) =>
        /\ Count("createNote") = 0
        /\ Count("flash") = 0
        /\ Count("commitSession") = 0
        /\ note = NoNote
        /\ session.flash = <<>>
        /\ response.setCookie = NoCookie
        /\ (Count("safeParse") = 1 =>
              /\ ~parseResult.success
              /\ pc = "done"
              /\ response.kind = "json"
              /\ response.status = 400
              /\ DOMAIN response.errors = MissingFields(request.form))

C1_Witness ==
    /\ pc = "done"
    /\ response.status = 400
    /\ DOMAIN response.errors = {"title"}
    /\ Len(db) = 1

\* C2: an authenticated submission with title and body, once the action has
\* returned, has made exactly one createNote call and is answered by a
\* redirect to /notes with a Set-Cookie header; when createNote or
\* commitSession fails instead, createNote was still called exactly once.
C2_SuccessRedirects ==
    (/\ request.route = "/notes/new"
     /\ request.cookieUserId # NoUser
     /\ MissingFields(request.form) = {}) =>
        /\ (pc = "done" =>
              /\ Count("createNote") = 1
              /\ response.kind = "redirect"
              /\ response.location = "/notes"
              /\ response.setCookie.signed
              /\ db # <<>>
              /\ db[Len(db)] = note)
        /\ (pc = "thrown" => Count("createNote") = 1)

C2_Witness ==
    /\ pc = "done"
    /\ response.kind = "redirect"
    /\ Len(db) = 2

\* C3: createNote is called at most once per run of the action, only after
\* requireUserId resolved and safeParse succeeded, and the note it stores has
\* the resolved user id and the parsed title and body; no stored note lacks a
\* user or a field.
C3_CreateAfterAuthAndValidation ==
    /\ Count("createNote") <= 1
    /\ (Count("createNote") = 1 =>
          /\ pRequireUserId.state = "resolved"
          /\ pRequireUserId.value = request.cookieUserId
          /\ userId = pRequireUserId.value
          /\ userId \in Users
          /\ parseResult.success
          /\ parseResult.data = request.form
          /\ SubSeq(calls, 1, 5) = SubSeq(AllCalls, 1, 5))
    /\ (note # NoNote =>
          /\ note.userId = userId
          /\ note.title = parseResult.data["title"]
          /\ note.body = parseResult.data["body"]
          /\ db # <<>>
          /\ db[Len(db)] = note)
    /\ \A i \in DOMAIN db :
          /\ db[i].userId \in Users
          /\ db[i].title \in Texts
          /\ db[i].body \in Texts
    /\ Len(db) <= nRequests

C3_Witness ==
    /\ note # NoNote
    /\ note.title # note.body
    /\ note.userId = "u2"
    /\ pc = "flash"

\* C4: flash follows createNote and precedes commitSession, and the cookie of
\* the redirect is the session read at the start of the request with the
\* success flash added.
C4_CookieCarriesFlash ==
    /\ (Count("flash") = 1 => Count("createNote") = 1)
    /\ (Count("commitSession") = 1 => Count("flash") = 1)
    /\ (response.kind = "redirect" =>
          /\ calls = AllCalls
          /\ response.setCookie.data.flash = <<FlashMessage(note)>>
          /\ response.setCookie =
                commitSession(Flash(pGetSession.value, FlashMessage(note))))

C4_Witness ==
    /\ response.kind = "redirect"
    /\ Len(response.setCookie.data.flash) = 1
    /\ response.setCookie.data.userId = "u1"

\* C5: a request without a session user id ends with the redirect thrown by
\* requireUserId: the loader never returns null, and the action never
\* validates, creates, flashes or commits, however the three reads settle.
C5_UnauthenticatedShortCircuits ==
    request.cookieUserId = NoUser =>
        /\ pc \in {"start", "awaitAll", "awaitUser", "thrown"}
        /\ (pc = "thrown" => response = LoginRedirect)
        /\ (pc # "thrown" => response = NoResponse)
        /\ Count("safeParse") = 0
        /\ Count("createNote") = 0
        /\ Count("flash") = 0
        /\ Count("commitSession") = 0
        /\ parseResult = NoParse
        /\ note = NoNote

C5_Witness ==
    /\ request.route = "/notes/new"
    /\ request.cookieUserId = NoUser
    /\ pc = "thrown"
    /\ response = LoginRedirect
    /\ pFormData.state = "resolved"
    /\ pGetSession.state = "pending"

DoesNotExist ==
    "Oops! Looks like you tried to visit a page that does not exist."
NoAccess ==
    "Oops! Looks like you tried to visit a page that you do not have access to."

\* What the catch boundary leaves behind for a caught response, given the
\* message the Error of the default branch must carry.
CatchOutcome(message) ==
    (caught # NoCaught /\ rootPc \in {"error", "done"}) =>
        IF caught.status = 404
            THEN /\ rootPc = "done"
                 /\ error = NoError
                 /\ rendered.kind = "ErrorDocument"
                 /\ rendered.children.paragraphs = <<DoesNotExist>>
        ELSE IF caught.status = 401
            THEN /\ rootPc = "done"
                 /\ error = NoError
                 /\ rendered.kind = "ErrorDocument"
                 /\ rendered.children.paragraphs = <<NoAccess>>
        ELSE /\ error = [message |-> message]
             /\ (rootPc = "done" =>
                   /\ rendered.kind = "ErrorDocument"
                   /\ rendered.children.heading = <<"There was an error">>
                   /\ rendered.children.paragraphs[1] = message
                   /\ console = <<error>>)

\* C6 as stated: 404 and 401 render their messages, and any other status
\* throws an Error whose message is the status text.
C6_Original == CatchOutcome(caught.statusText)

\* C6, amended: 404 and 401 render their messages, and any other status
\* throws an Error whose message is the response body when it is not empty
\* and the status text otherwise; the error boundary then renders it.
C6_CatchDispatch ==
    CatchOutcome(IF caught.data # "" THEN caught.data ELSE caught.statusText)

C6_Witness ==
    /\ rootPc = "done"
    /\ caught.status = 500
    /\ caught.data = "Response body"
    /\ caught.statusText = "Status Text"
    /\ rendered.children.paragraphs[1] = "Response body"

\* C7 as stated: the error document has the root class dark and carries
\* neither theme elements, nor the window.ENV script, nor live reload.
C7_Original ==
    rendered.kind = "ErrorDocument" =>
        /\ rendered.htmlClass = "dark"
        /\ rendered.env = NoEnv
        /\ rendered.parts \cap {"NonFlashOfWrongThemeEls", "window.ENV script",
                                "LiveReload"} = {}

\* C7, amended: both boundaries render the error document, which has the
\* root class dark whatever the loader payload, and carries neither theme
\* elements, nor scroll restoration, nor the window.ENV script; it keeps
\* Scripts and LiveReload.
C7_ErrorDocumentReduced ==
    /\ (rootPc = "done" /\ (caught # NoCaught \/ error # NoError) =>
          rendered.kind = "ErrorDocument")
    /\ (rendered.kind = "ErrorDocument" =>
          /\ rendered.htmlClass = "dark"
          /\ rendered.env = NoEnv
          /\ rendered.parts \cap {"NonFlashOfWrongThemeEls",
                                  "window.ENV script",
                                  "ScrollRestoration"} = {}
          /\ {"Scripts", "LiveReload"} \subseteq rendered.parts)

C7_Witness ==
    /\ rendered.kind = "ErrorDocument"
    /\ loaderData.theme = "light"
    /\ loaderData.ENV.RECAPTCHA_ENABLED = "true"
    /\ caught.status = 404

\* C8: a submit event sends the form over the network exactly when the
\* values pass the schema; every body sent is valid.
C8_SubmitOnlyIfValid ==
    /\ \A i \in DOMAIN sent : MissingFields(sent[i]) = {}
    /\ \A i \in DOMAIN events :
          events[i].submitted <=> MissingFields(events[i].values) = {}
    /\ Len(sent) = Cardinality({i \in DOMAIN events : events[i].submitted})

C8_Witness ==
    /\ Len(events) = 2
    /\ ~events[1].submitted
    /\ events[2].submitted
    /\ Len(sent) = 1
    /\ navigation.state = "submitting"

\* C9 as stated: whenever the navigation is not idle the button is disabled
\* and shows the busy indicator.
C9_Original ==
    navigation.state # "idle" =>
        button = [disabled |-> TRUE, label |-> "..."]

\* C9, amended: the button is disabled and shows '...' exactly while the
\* navigation state is submitting, so no submit event is handled in that
\* state; in the loading state that follows it is enabled and shows Save.
C9_DisabledWhileSubmitting ==
    /\ (navigation.state = "submitting" =>
          button = [disabled |-> TRUE, label |-> "..."])
    /\ (navigation.state \in {"idle", "loading"} =>
          button = [disabled |-> FALSE, label |-> "Save"])
    /\ \A i \in DOMAIN events : events[i].during # "submitting"

C9_Witness ==
    /\ Len(sent) = 2
    /\ events[1].during = "idle"
    /\ events[2].during = "loading"
    /\ navigation.state = "submitting"
    /\ button.disabled

\* A non-empty string that starts with '/' and not with '//'.
SamePath(v) ==
    /\ v.type = "string"
    /\ Len(v.chars) >= 1
    /\ v.chars[1] = "/"
    /\ ~(Len(v.chars) >= 2 /\ v.chars[2] = "/")

\* C10: safeRedirect returns to when to is a non-empty string starting with
\* '/' and not with '//', and otherwise defaultRedirect, which is '/' when
\* not given; the result is defaultRedirect or such a path.
C10_SafeRedirect ==
    result # NotCalled =>
        LET given == IF defaultRedirect = Undefined
                         THEN String(<<"/">>)
                         ELSE defaultRedirect
        IN  /\ (SamePath(to) => result = to)
            /\ (~SamePath(to) => result = given)
            /\ (result = given \/ SamePath(result))

C10_Witness ==
    /\ result = String(<<"/">>)
    /\ to = String(<<"/", "/", "a">>)
    /\ defaultRedirect = Undefined

\* One call of truncate.
InitTruncate == ServerIdle /\ RootInit /\ FormInit /\ RedirectIdle /\ TruncateInit

NextTruncate == CallTruncate

SpecTruncate == InitTruncate /\ [][NextTruncate]_vars

EndsWithEllipsis(s) ==
    /\ Len(s) >= 3
    /\ SubSeq(s, Len(s) - 2, Len(s)) = <<".", ".", ".">>

\* C11: truncate returns str unchanged when str is empty or no longer than
\* length, and otherwise a string that ends in '...' and is no longer than
\* length.
C11_TruncateRespectsLength ==
    truncated # TruncateNotCalled =>
        IF str = <<>> \/ Len(str) <= length
            THEN truncated = str
            ELSE /\ EndsWithEllipsis(truncated)
                 /\ Len(truncated) <= length

=============================================================================
